---- MODULE Spec2Model ----
(***************************************************************************)
(* Process-kill timer (src/src/main.rs): the App state, the key handlers,  *)
(* the timer arithmetic and the control loop of main().                    *)
(*                                                                         *)
(* Strings are sequences of one-character strings, Option<T> is a sequence *)
(* of length 0 (None) or 1 (Some).  A catalog entry (Pid, String) is a     *)
(* record [pid, name].                                                     *)
(***************************************************************************)
EXTENDS Integers, Sequences, FiniteSets, TLC

VARIABLES
    processes,           \* App.processes: Vec<(Pid, String)>
    filtered_processes,  \* App.filtered_processes
    list_state,          \* App.list_state.selected(): Option<usize>
    search_query,        \* App.search_query
    selected_pid,        \* App.selected_pid: Option<Pid>
    mode,                \* App.mode
    timer_input,         \* App.timer_input
    timer_seconds,       \* App.timer_seconds
    timer_start,         \* App.timer_start: Option<Instant>
    status_message,      \* App.status_message (one tag per message text)
    now,                 \* the monotonic clock read by Instant::now()/elapsed(), in clock ticks
                         \* (read only against timer_start: 0 while no start instant is held)
    pc,                  \* position of main()'s loop: "check", "events" or "done"
    dispatch,            \* history: the kill_process call made by the latest loop step (None: no call)
    live_arming          \* history: start_timer armed the timer and neither a cancel nor a dispatch followed

vars == <<processes, filtered_processes, list_state, search_query, selected_pid, mode,
          timer_input, timer_seconds, timer_start, status_message, now, pc,
          dispatch, live_arming>>

----------------------------------------------------------------------------
(* Bounds of the model *)

MaxQuery == 1        \* longest search query typed
MaxInput == 1        \* longest timer input typed
MaxSlackTicks == 2   \* the clock moves tick by tick for this long, and runs this far past an expiry
TicksPerSec == 2     \* clock resolution: ticks per second
MaxParseLen == 4     \* longest input of the parse-only specification

----------------------------------------------------------------------------
(* Option and string helpers *)

None == <<>>
Some(x) == <<x>>
IsSome(o) == Len(o) = 1
Unwrap(o) == o[1]

Max(a, b) == IF a >= b THEN a ELSE b

\* usize::saturating_sub
SaturatingSub(a, b) == IF a >= b THEN a - b ELSE 0

\* the byte value of a character (ASCII)
Code(c) ==
    CASE c = " " -> 32 [] c = "+" -> 43 [] c = "-" -> 45 [] c = "/" -> 47
      [] c = "0" -> 48 [] c = "1" -> 49 [] c = "3" -> 51 [] c = "5" -> 53
      [] c = ":" -> 58 [] c = "A" -> 65 [] c = "a" -> 97 [] OTHER -> 63

\* char::to_lowercase on the characters of the model
LowerChar(c) == IF c = "A" THEN "a" ELSE c

\* str::to_lowercase
ToLowercase(s) == [i \in 1..Len(s) |-> LowerChar(s[i])]

\* str::contains(&str): some window of s equals pat (the empty pattern is contained in everything)
Contains(s, pat) ==
    \E i \in 0..(Len(s) - Len(pat)) : SubSeq(s, i + 1, i + Len(pat)) = pat

\* String::cmp: byte-wise lexicographic order, a proper prefix is smaller
RECURSIVE StrLess(_, _)
StrLess(a, b) ==
    IF b = <<>> THEN FALSE
    ELSE IF a = <<>> THEN TRUE
    ELSE IF Code(Head(a)) # Code(Head(b)) THEN Code(Head(a)) < Code(Head(b))
    ELSE StrLess(Tail(a), Tail(b))

\* String::pop: drops the last character, nothing on the empty string
Pop(s) == IF s = <<>> THEN s ELSE SubSeq(s, 1, Len(s) - 1)

----------------------------------------------------------------------------
(* The process inventory provider (sysinfo): what System::processes() can hold *)

\* every process the system can be running; identifier 1 is reused under another name
ProcEntries ==
    {[pid |-> 1, name |-> <<"a">>], [pid |-> 1, name |-> <<"A", "1">>],
     [pid |-> 2, name |-> <<"a">>]}

\* the live sets: no identifier names two processes at once
LiveSets == {S \in SUBSET ProcEntries : \A p, q \in S : p.pid = q.pid => p = q}

\* the orders in which the provider's map can enumerate a live set
RECURSIVE Enumerations(_)
Enumerations(S) ==
    IF S = {} THEN {<<>>}
    ELSE UNION {{<<p>> \o rest : rest \in Enumerations(S \ {p})} : p \in S}

\* one step of the stable sort: e goes after every entry whose name is not greater
RECURSIVE InsertByName(_, _)
InsertByName(sorted, e) ==
    IF sorted = <<>> THEN <<e>>
    ELSE IF StrLess(e.name, Head(sorted).name) THEN <<e>> \o sorted
    ELSE <<Head(sorted)>> \o InsertByName(Tail(sorted), e)

\* Vec::sort_by(|a, b| a.1.cmp(&b.1)): stable, by name only
RECURSIVE SortByName(_)
SortByName(v) ==
    IF v = <<>> THEN <<>>
    ELSE InsertByName(SortByName(SubSeq(v, 1, Len(v) - 1)), v[Len(v)])

\* what the loop of refresh_processes pushes, in every enumeration order
Enumerated == UNION {Enumerations(S) : S \in LiveSets}

----------------------------------------------------------------------------
(* App: the methods, as functions from the App record to the App record *)

App ==
    [processes |-> processes, filtered_processes |-> filtered_processes,
     list_state |-> list_state, search_query |-> search_query,
     selected_pid |-> selected_pid, mode |-> mode, timer_input |-> timer_input,
     timer_seconds |-> timer_seconds, timer_start |-> timer_start,
     status_message |-> status_message]

\* the closure with the name compared as it is spelled
Matches_CaseSensitiveName(name, query) == Contains(name, ToLowercase(query))

\* the closure of filter_processes: the lower-cased name contains the lower-cased query
Matches(name, query) == Contains(ToLowercase(name), ToLowercase(query))

\* Iterator::filter + collect: the entries that satisfy the test, in order
RECURSIVE FilterBy(_, _)
FilterBy(v, query) ==
    IF v = <<>> THEN <<>>
    ELSE IF Matches(Head(v).name, query) THEN <<Head(v)>> \o FilterBy(Tail(v), query)
    ELSE FilterBy(Tail(v), query)

\* filter_processes without the index adjustment of lines 89-93
filter_processes_NoClamp(a) ==
    [a EXCEPT !.filtered_processes =
                  IF a.search_query = <<>> THEN a.processes
                  ELSE FilterBy(a.processes, a.search_query)]

\* App::filter_processes
filter_processes(a) ==
    LET f == IF a.search_query = <<>> THEN a.processes
             ELSE FilterBy(a.processes, a.search_query)
        sel == IF IsSome(a.list_state) /\ Unwrap(a.list_state) >= Len(f)
               THEN Some(SaturatingSub(Len(f), 1))
               ELSE a.list_state
    IN  [a EXCEPT !.filtered_processes = f, !.list_state = sel]

\* App::refresh_processes, enumerated being what the provider enumerates
refresh_processes(a, enumerated) ==
    LET b == filter_processes([a EXCEPT !.processes = SortByName(enumerated)])
    IN  IF b.filtered_processes # <<>> /\ ~IsSome(b.list_state)
        THEN [b EXCEPT !.list_state = Some(0)]
        ELSE b

\* next stepping past the last entry instead of wrapping
next_NoWrap(a) ==
    [a EXCEPT !.list_state = IF IsSome(a.list_state) THEN Some(Unwrap(a.list_state) + 1)
                             ELSE Some(0)]

\* App::next
next(a) ==
    LET i == IF IsSome(a.list_state)
             THEN IF Unwrap(a.list_state) >= SaturatingSub(Len(a.filtered_processes), 1)
                  THEN 0
                  ELSE Unwrap(a.list_state) + 1
             ELSE 0
    IN  [a EXCEPT !.list_state = Some(i)]

\* App::previous
previous(a) ==
    LET i == IF IsSome(a.list_state)
             THEN IF Unwrap(a.list_state) = 0
                  THEN SaturatingSub(Len(a.filtered_processes), 1)
                  ELSE Unwrap(a.list_state) - 1
             ELSE 0
    IN  [a EXCEPT !.list_state = Some(i)]

\* the guard of select_process: an index is selected and it points at an entry
HasSelection(a) ==
    IsSome(a.list_state) /\ Unwrap(a.list_state) < Len(a.filtered_processes)

\* select_process starting the countdown at once
select_process_SkipsInput(a) ==
    IF HasSelection(a)
    THEN [a EXCEPT !.selected_pid = Some(a.filtered_processes[Unwrap(a.list_state) + 1].pid),
                   !.mode = "TimerRunning",
                   !.status_message = "timer_prompt"]
    ELSE a

\* App::select_process (indices are 0-based in the code, sequences 1-based here)
select_process(a) ==
    IF HasSelection(a)
    THEN [a EXCEPT !.selected_pid = Some(a.filtered_processes[Unwrap(a.list_state) + 1].pid),
                   !.mode = "TimerInput",
                   !.status_message = "timer_prompt"]
    ELSE a

----------------------------------------------------------------------------
(* Timer engine *)

IsSpace(c) == c = " "
IsDigit(c) == c \in {"0", "1", "3", "5"}
DigitVal(c) == Code(c) - 48

\* str::trim: drops the white space at both ends
RECURSIVE TrimStart(_)
TrimStart(s) == IF s # <<>> /\ IsSpace(Head(s)) THEN TrimStart(Tail(s)) ELSE s

RECURSIVE TrimEnd(_)
TrimEnd(s) == IF s # <<>> /\ IsSpace(s[Len(s)]) THEN TrimEnd(Pop(s)) ELSE s

Trim(s) == TrimEnd(TrimStart(s))

\* str::find(':'): the 1-based position of the first colon, 0 when there is none
FindColon(s) ==
    IF \E i \in 1..Len(s) : s[i] = ":"
    THEN CHOOSE i \in 1..Len(s) : s[i] = ":" /\ \A j \in 1..(i - 1) : s[j] # ":"
    ELSE 0

\* the value of a digit string, most significant digit first
RECURSIVE DigitsValue(_)
DigitsValue(s) ==
    IF s = <<>> THEN 0 ELSE DigitsValue(Pop(s)) * 10 + DigitVal(s[Len(s)])

\* str::parse::<u64>(): an optional "+", then one or more digits; Some(value) or None for Err.
\* (A value of 2^64 or more is an Err as well; no string of the model is that long.)
ParseU64(s) ==
    LET digits == IF s # <<>> /\ Head(s) = "+" THEN Tail(s) ELSE s
    IN  IF digits # <<>> /\ \A i \in 1..Len(digits) : IsDigit(digits[i])
        THEN Some(DigitsValue(digits))
        ELSE None

\* parse_timer_input without the trim of line 146
parse_timer_input_NoTrim(a) ==
    LET input == a.timer_input
        colon_pos == FindColon(input)
        minutes == ParseU64(SubSeq(input, 1, colon_pos - 1))
        seconds == ParseU64(SubSeq(input, colon_pos + 1, Len(input)))
    IN  IF colon_pos > 0
        THEN IF IsSome(minutes) /\ IsSome(seconds)
             THEN Some(Unwrap(minutes) * 60 + Unwrap(seconds))
             ELSE None
        ELSE ParseU64(input)

\* App::parse_timer_input: Some(seconds) for Ok, None for Err
parse_timer_input(a) ==
    LET input == Trim(a.timer_input)
        colon_pos == FindColon(input)
        minutes == ParseU64(SubSeq(input, 1, colon_pos - 1))
        seconds == ParseU64(SubSeq(input, colon_pos + 1, Len(input)))
    IN  IF colon_pos > 0
        THEN IF IsSome(minutes) /\ IsSome(seconds)
             THEN Some(Unwrap(minutes) * 60 + Unwrap(seconds))
             ELSE None
        ELSE ParseU64(input)

\* App::start_timer, instant being what Instant::now() returns
start_timer(a, instant) ==
    LET parsed == parse_timer_input(a)
    IN  IF IsSome(parsed)
        THEN [a EXCEPT !.timer_seconds = Unwrap(parsed),
                       !.timer_start = Some(instant),
                       !.mode = "TimerRunning",
                       !.status_message = "running"]
        ELSE [a EXCEPT !.status_message = "invalid_format"]

\* Instant::elapsed().as_secs() at clock reading t: whole seconds, the fraction dropped
ElapsedSecs(start, t) == (t - start) \div TicksPerSec

\* get_remaining_time without the guard of lines 166-168
get_remaining_time_NoSaturation(a, t) ==
    IF IsSome(a.timer_start)
    THEN Some(a.timer_seconds - ElapsedSecs(Unwrap(a.timer_start), t))
    ELSE None

\* App::get_remaining_time at clock reading t
get_remaining_time(a, t) ==
    IF IsSome(a.timer_start)
    THEN LET elapsed == ElapsedSecs(Unwrap(a.timer_start), t)
         IN  IF elapsed >= a.timer_seconds THEN Some(0)
             ELSE Some(a.timer_seconds - elapsed)
    ELSE None

----------------------------------------------------------------------------
(* Termination dispatcher *)

\* What one call of kill_process can meet:
\*   windows:   the build the call runs in, cfg(windows) or cfg(not(windows))
\*   alive:     the identifier names a running process when refresh_process looks
\*   found:     System::process(pid) returns an entry afterwards (the provider may
\*              or may not drop the entry of a process that is gone)
\*   delivered: the platform action (Process::kill / taskkill) succeeds
\*   same:      the running process the identifier names is the one the selected list
\*              entry was read from (the system may have given the identifier to another)
KillOutcomes ==
    {o \in [windows : BOOLEAN, alive : BOOLEAN, found : BOOLEAN, delivered : BOOLEAN,
            same : BOOLEAN] :
        /\ o.alive => o.found
        /\ o.delivered => o.alive /\ o.found
        /\ o.same => o.alive}

\* kill_process running the platform action whatever the lookup returned
kill_issued_NoLookup(a, o) == IsSome(a.selected_pid)

\* App::kill_process: the platform action (taskkill / Process::kill) is run under outcome o
kill_issued(a, o) == IsSome(a.selected_pid) /\ o.found

\* App::kill_process: the value returned under outcome o
kill_process(a, o) ==
    IF IsSome(a.selected_pid)
    THEN IF o.found
         THEN IF o.windows THEN o.delivered ELSE TRUE
         ELSE FALSE
    ELSE FALSE

\* the record of one call of kill_process: the target, what the call met, whether the
\* platform action was run, the value returned, and whether the caller's branch changed
\* the lists or the list index afterwards
KillCall(a, o, changed) ==
    [pid |-> a.selected_pid, outcome |-> o, issued |-> kill_issued(a, o),
     ret |-> kill_process(a, o), catalog_changed |-> changed]

----------------------------------------------------------------------------
(* handle_events *)

\* the characters the model types; "q", "Q" and, in ProcessSelect, "/" are matched before Char(c)
KeyChars == {"A", "1"}
NoKey == "NoKey"

\* Esc in TimerInput: back to the list
cancel_input(a) ==
    [a EXCEPT !.mode = "ProcessSelect",
              !.selected_pid = None,
              !.timer_input = <<>>,
              !.status_message = "select_prompt_again"]

\* the cancel that leaves the start instant in place
cancel_timer_KeepsStart(a) ==
    [a EXCEPT !.mode = "ProcessSelect",
              !.selected_pid = None,
              !.status_message = "cancelled"]

\* q/Q in TimerRunning: the countdown is cancelled
cancel_timer(a) ==
    [a EXCEPT !.mode = "ProcessSelect",
              !.selected_pid = None,
              !.timer_start = None,
              !.status_message = "cancelled"]

\* the match of handle_events on (app.mode, key.code); instant is what Instant::now() returns
handle_events(a, k, instant) ==
    CASE a.mode = "ProcessSelect" ->
            CASE k = "Up" -> previous(a)
              [] k = "Down" -> next(a)
              [] k = "/" -> [a EXCEPT !.search_query = <<>>]
              [] k = "Enter" -> select_process(a)
              [] k \in KeyChars ->
                    filter_processes([a EXCEPT !.search_query = Append(a.search_query, k)])
              [] k = "Backspace" ->
                    filter_processes([a EXCEPT !.search_query = Pop(a.search_query)])
              [] OTHER -> a
      [] a.mode = "TimerInput" ->
            CASE k = "Esc" -> cancel_input(a)
              [] k = "Enter" -> start_timer(a, instant)
              [] k \in KeyChars \cup {"/"} ->
                    [a EXCEPT !.timer_input = Append(a.timer_input, k)]
              [] k = "Backspace" -> [a EXCEPT !.timer_input = Pop(a.timer_input)]
              [] OTHER -> a
      [] a.mode = "TimerRunning" ->
            CASE k = "q" -> cancel_timer(a)
              [] OTHER -> a

\* the value handle_events returns: Ok(true) for q/Q in ProcessSelect and TimerInput
ReturnsQuit(a, k) == k = "q" /\ a.mode \in {"ProcessSelect", "TimerInput"}

\* the model types no string longer than its bounds
Typable(a, k) ==
    /\ (a.mode = "ProcessSelect" /\ k \in KeyChars) => Len(a.search_query) < MaxQuery
    /\ (a.mode = "TimerInput" /\ k \in KeyChars \cup {"/"}) => Len(a.timer_input) < MaxInput

----------------------------------------------------------------------------
(* main: the control loop.  One iteration is terminal.draw (no effect on the  *)
(* state), the timer check (pc = "check"), then handle_events and the refresh *)
(* that follows it (pc = "events").                                          *)

\* the fields refresh_processes writes
SetCatalog(a) ==
    /\ processes' = a.processes
    /\ filtered_processes' = a.filtered_processes
    /\ list_state' = a.list_state

\* the other fields of App
SetRest(a) ==
    /\ search_query' = a.search_query
    /\ selected_pid' = a.selected_pid
    /\ mode' = a.mode
    /\ timer_input' = a.timer_input
    /\ timer_seconds' = a.timer_seconds
    /\ timer_start' = a.timer_start
    /\ status_message' = a.status_message

\* App::new, enumerated being the provider's first enumeration
NewApp(enumerated) ==
    refresh_processes(
        [processes |-> <<>>, filtered_processes |-> <<>>, list_state |-> None,
         search_query |-> <<>>, selected_pid |-> None, mode |-> "ProcessSelect",
         timer_input |-> <<>>, timer_seconds |-> 0, timer_start |-> None,
         status_message |-> "select_prompt"],
        enumerated)

Init ==
    /\ \E e \in Enumerated :
          LET a == NewApp(e)
          IN  /\ processes = a.processes
              /\ filtered_processes = a.filtered_processes
              /\ list_state = a.list_state
              /\ search_query = a.search_query
              /\ selected_pid = a.selected_pid
              /\ mode = a.mode
              /\ timer_input = a.timer_input
              /\ timer_seconds = a.timer_seconds
              /\ timer_start = a.timer_start
              /\ status_message = a.status_message
    /\ now = 0
    /\ pc = "check"
    /\ dispatch = None
    /\ live_arming = FALSE

\* the clock reading kept in the state: t while a start instant is held, else 0
ClockFor(a, t) == IF IsSome(a.timer_start) THEN t ELSE 0

\* the timer check passed over: the loop goes to handle_events whatever the countdown says
TimerIdle_SkipsCheck ==
    /\ pc = "check"
    /\ pc' = "events"
    /\ dispatch' = None
    /\ UNCHANGED <<processes, filtered_processes, list_state, search_query, selected_pid,
                   mode, timer_input, timer_seconds, timer_start, status_message, now,
                   live_arming>>

\* the timer check finds nothing to do: not TimerRunning, or time remains
TimerIdle ==
    /\ pc = "check"
    /\ ~(mode = "TimerRunning" /\ get_remaining_time(App, now) = Some(0))
    /\ pc' = "events"
    /\ dispatch' = None
    /\ UNCHANGED <<processes, filtered_processes, list_state, search_query, selected_pid,
                   mode, timer_input, timer_seconds, timer_start, status_message, now,
                   live_arming>>

\* the timer check whose failure branch leaves the mode alone
AfterKill_StaysRunning(a, ret, enumerated) ==
    IF ret
    THEN refresh_processes([a EXCEPT !.status_message = "killed",
                                     !.mode = "ProcessSelect",
                                     !.selected_pid = None,
                                     !.timer_start = None],
                           enumerated)
    ELSE [a EXCEPT !.status_message = "kill_failed"]

\* the state the timer check leaves when kill_process returned ret
AfterKill(a, ret, enumerated) ==
    IF ret
    THEN refresh_processes([a EXCEPT !.status_message = "killed",
                                     !.mode = "ProcessSelect",
                                     !.selected_pid = None,
                                     !.timer_start = None],
                           enumerated)
    ELSE [a EXCEPT !.status_message = "kill_failed",
                   !.mode = "ProcessSelect"]

\* the timer check calling kill_process in TimerRunning whatever time remains
TimerExpired_IgnoresRemaining(o, ret, enumerated) ==
    /\ pc = "check"
    /\ mode = "TimerRunning"
    /\ kill_process(App, o) = ret
    /\ pc' = "events"
    /\ live_arming' = FALSE
    /\ LET a == AfterKill(App, ret, enumerated)
       IN  /\ dispatch' = Some(KillCall(App, o,
                                <<a.processes, a.filtered_processes, a.list_state>>
                                    # <<processes, filtered_processes, list_state>>))
           /\ now' = ClockFor(a, now)
           /\ SetRest(a)
           /\ SetCatalog(a)

\* the timer check with remaining == 0: kill_process is called under outcome o and returns ret
TimerExpired(o, ret, enumerated) ==
    /\ pc = "check"
    /\ mode = "TimerRunning"
    /\ get_remaining_time(App, now) = Some(0)
    /\ kill_process(App, o) = ret
    /\ pc' = "events"
    /\ live_arming' = FALSE
    /\ LET a == AfterKill(App, ret, enumerated)
       IN  /\ dispatch' = Some(KillCall(App, o,
                                <<a.processes, a.filtered_processes, a.list_state>>
                                    # <<processes, filtered_processes, list_state>>))
           /\ now' = ClockFor(a, now)
           /\ SetRest(a)
           /\ SetCatalog(a)

TimerKilled == \E o \in KillOutcomes, e \in Enumerated : TimerExpired(o, TRUE, e)

TimerKillFailed == \E o \in KillOutcomes : TimerExpired(o, FALSE, <<>>)

\* the mode terminal.draw showed at the top of the current iteration (the timer check
\* changes the mode only when it calls kill_process, and then from TimerRunning)
Rendered == IF pc = "events" /\ IsSome(dispatch) THEN "TimerRunning" ELSE mode

\* handle_events followed by a refresh in every mode
HandleEvents_AlwaysRefreshes(k) ==
    /\ pc = "events"
    /\ Typable(App, k)
    /\ pc' = IF ReturnsQuit(App, k) THEN "done" ELSE "check"
    /\ dispatch' = None
    /\ LET armed == mode = "TimerInput" /\ k = "Enter" /\ IsSome(parse_timer_input(App))
           a1 == handle_events(App, k, 0)
       IN  /\ now' = IF armed THEN 0 ELSE ClockFor(a1, now)
           /\ live_arming' = IF armed THEN TRUE
                             ELSE IF mode = "TimerRunning" /\ k = "q" THEN FALSE
                             ELSE live_arming
           /\ SetRest(a1)
           /\ \E e \in Enumerated : SetCatalog(refresh_processes(a1, e))

\* handle_events consuming key press k (NoKey: the poll timed out), then the
\* refresh of main and the loop condition
HandleEvents(k) ==
    /\ pc = "events"
    /\ Typable(App, k)
    /\ pc' = IF ReturnsQuit(App, k) THEN "done" ELSE "check"
    /\ dispatch' = None
    /\ LET armed == mode = "TimerInput" /\ k = "Enter" /\ IsSome(parse_timer_input(App))
           a1 == handle_events(App, k, 0)
       IN  \* an Instant is opaque: the clock is read from 0 again at every arming
           /\ now' = IF armed THEN 0 ELSE ClockFor(a1, now)
           /\ live_arming' = IF armed THEN TRUE
                             ELSE IF mode = "TimerRunning" /\ k = "q" THEN FALSE
                             ELSE live_arming
           /\ SetRest(a1)
           /\ IF a1.mode = "ProcessSelect"
              THEN \E e \in Enumerated : SetCatalog(refresh_processes(a1, e))
              ELSE SetCatalog(a1)

KeyQuit == HandleEvents("q")
KeyUp == HandleEvents("Up")
KeyDown == HandleEvents("Down")
KeySlash == HandleEvents("/")
KeyEnter == HandleEvents("Enter")
KeyEsc == HandleEvents("Esc")
KeyBackspace == HandleEvents("Backspace")
KeyChar == \E c \in KeyChars : HandleEvents(c)
KeyOther == HandleEvents("Other")
PollTimeout == HandleEvents(NoKey)

\* the clock readings time can move to: the next tick while the countdown is young,
\* or any reading from one tick before the expiry instant on
NextInstants ==
    LET expiry == timer_seconds * TicksPerSec
    IN  {t \in (now + 1)..(expiry + MaxSlackTicks) :
            \/ t = now + 1 /\ now < MaxSlackTicks
            \/ t >= expiry - 1}

\* real time passes (it is observed only through timer_start.elapsed())
AdvanceTime ==
    /\ pc # "done"
    /\ IsSome(timer_start)
    /\ \E t \in NextInstants : now' = t
    /\ UNCHANGED <<processes, filtered_processes, list_state, search_query, selected_pid,
                   mode, timer_input, timer_seconds, timer_start, status_message, pc,
                   dispatch, live_arming>>

Tick ==
    \/ TimerIdle
    \/ TimerKilled
    \/ TimerKillFailed
    \/ KeyQuit
    \/ KeyUp
    \/ KeyDown
    \/ KeySlash
    \/ KeyEnter
    \/ KeyEsc
    \/ KeyBackspace
    \/ KeyChar
    \/ KeyOther
    \/ PollTimeout

Next == Tick \/ AdvanceTime

Spec == Init /\ [][Next]_vars

\* Tick again, each step under the loop position it is taken from (every disjunct of
\* Tick holds its own pc guard, so the two are the same action)
LoopStep ==
    \/ pc = "check" /\ (TimerIdle \/ TimerKilled \/ TimerKillFailed)
    \/ pc = "events" /\ (PollTimeout \/ KeyQuit \/ KeyUp \/ KeyDown \/ KeySlash \/ KeyEnter
                          \/ KeyEsc \/ KeyBackspace \/ KeyChar \/ KeyOther)

\* the loop never blocks (the poll waits 100 ms at most) and time moves on
FairSpec == Spec /\ WF_vars(LoopStep) /\ WF_vars(AdvanceTime)

----------------------------------------------------------------------------
(* The parse-only specification: start_timer applied to every typed input *)

ParseChars == {"0", "3", "5", ":", " ", "-", "+", "a"}

RECURSIVE StringsUpTo(_)
StringsUpTo(n) ==
    IF n = 0 THEN {<<>>}
    ELSE LET shorter == StringsUpTo(n - 1)
         IN  shorter \cup {Append(w, c) : w \in shorter, c \in ParseChars}

\* TimerInput, entered from a one-entry list, with any text typed so far
InitParse ==
    /\ processes = <<[pid |-> 1, name |-> <<"a">>]>>
    /\ filtered_processes = processes
    /\ list_state = Some(0)
    /\ search_query = <<>>
    /\ selected_pid = Some(1)
    /\ mode = "TimerInput"
    /\ timer_input \in StringsUpTo(MaxParseLen)
    /\ timer_seconds = 0
    /\ timer_start = None
    /\ status_message = "timer_prompt"
    /\ now = 0
    /\ pc = "events"
    /\ dispatch = None
    /\ live_arming = FALSE

NextParse == KeyEnter

SpecParse == InitParse /\ [][NextParse]_vars

----------------------------------------------------------------------------
(* The dispatcher-only specification: kill_process applied to every target *)

\* an expired countdown over any list, whatever selected_pid holds
InitKill ==
    /\ \E e \in Enumerated :
          LET a == NewApp(e)
          IN  /\ processes = a.processes
              /\ filtered_processes = a.filtered_processes
              /\ list_state = a.list_state
    /\ search_query = <<>>
    /\ selected_pid \in {None} \cup {Some(p.pid) : p \in ProcEntries}
    /\ mode = "TimerRunning"
    /\ timer_input = <<"0">>
    /\ timer_seconds = 0
    /\ timer_start = Some(0)
    /\ status_message = "running"
    /\ now = 0
    /\ pc = "check"
    /\ dispatch = None
    /\ live_arming = TRUE

\* one call of kill_process, nothing of the caller's branches
KillProcessCall ==
    /\ dispatch = None
    /\ \E o \in KillOutcomes : dispatch' = Some(KillCall(App, o, FALSE))
    /\ UNCHANGED <<processes, filtered_processes, list_state, search_query, selected_pid,
                   mode, timer_input, timer_seconds, timer_start, status_message, now, pc,
                   live_arming>>

NextKill == KillProcessCall

SpecKill == InitKill /\ [][NextKill]_vars

----------------------------------------------------------------------------
(* Properties *)

\* the loop step being taken is the timer check that found remaining() == 0
ExpiryTick ==
    /\ pc = "check"
    /\ pc' = "events"
    /\ mode = "TimerRunning"
    /\ get_remaining_time(App, now) = Some(0)

\* the loop step being taken calls kill_process
Dispatching == pc = "check" /\ IsSome(dispatch')

\* the loop step being taken is handle_events consuming the cancel key in TimerRunning
CancelStep == mode = "TimerRunning" /\ KeyQuit

\* the loop step being taken is handle_events, with a key press or with the poll timed out
KeyStep ==
    \/ KeyQuit \/ KeyUp \/ KeyDown \/ KeySlash \/ KeyEnter \/ KeyEsc
    \/ KeyBackspace \/ KeyChar \/ KeyOther \/ PollTimeout

\* C1: the mode starts as ProcessSelect and changes only along the transition table:
\* ProcessSelect -> TimerInput on Enter with an existing selection, TimerInput ->
\* TimerRunning on Enter with an input that parses, TimerInput -> ProcessSelect on Esc,
\* TimerRunning -> ProcessSelect on the cancel key or on the tick with remaining() == 0.
C1_ModeTransitions ==
    /\ mode = "ProcessSelect"
    /\ [][mode' # mode =>
            \/ /\ mode = "ProcessSelect" /\ mode' = "TimerInput"
               /\ KeyEnter /\ HasSelection(App)
            \/ /\ mode = "TimerInput" /\ mode' = "TimerRunning"
               /\ KeyEnter /\ IsSome(parse_timer_input(App))
            \/ /\ mode = "TimerInput" /\ mode' = "ProcessSelect"
               /\ KeyEsc
            \/ /\ mode = "TimerRunning" /\ mode' = "ProcessSelect"
               /\ (CancelStep \/ ExpiryTick)]_vars

\* C1 witness: back in ProcessSelect after a countdown that ran out
C1_Witness == mode = "ProcessSelect" /\ status_message = "killed" /\ pc = "check"

\* C2: the cancel key in TimerRunning disarms the timer, clears the target and returns to
\* ProcessSelect, and the dispatcher is never called for a cancelled arming: every call
\* of kill_process belongs to an arming that was neither cancelled nor already fired.
C2_CancelDisarms ==
    /\ [][CancelStep =>
            /\ mode' = "ProcessSelect"
            /\ selected_pid' = None
            /\ timer_start' = None
            /\ ~live_arming']_vars
    /\ [][Dispatching => live_arming /\ mode = "TimerRunning"]_vars

\* C2 witness: a countdown has just been cancelled
C2_Witness ==
    /\ status_message = "cancelled"
    /\ mode = "ProcessSelect"
    /\ selected_pid = None
    /\ timer_start = None
    /\ pc = "check"

\* C3: the tick that finds the countdown run out calls kill_process on the target, once
\* for the arming, and leaves TimerRunning for ProcessSelect whatever kill_process
\* returned; with the loop and the clock moving, TimerRunning always leads to ProcessSelect.
C3_ExpiryFires ==
    /\ [][ExpiryTick =>
            /\ IsSome(dispatch')
            /\ IsSome(selected_pid)
            /\ Unwrap(dispatch').pid = selected_pid
            /\ mode' = "ProcessSelect"]_vars
    /\ [][Dispatching => ExpiryTick /\ live_arming /\ ~live_arming']_vars
    /\ (mode = "TimerRunning") ~> (mode = "ProcessSelect")

\* C3 witness: the dispatcher has just been called and reported failure
C3_Witness ==
    /\ IsSome(dispatch)
    /\ ~Unwrap(dispatch).ret
    /\ mode = "ProcessSelect"

\* C4: the target is set exactly when the mode is TimerInput or TimerRunning
C4_TargetIffTimerMode ==
    IsSome(selected_pid) <=> mode \in {"TimerInput", "TimerRunning"}

\* C7: after a dispatch that reported failure the mode is ProcessSelect, the target is
\* cleared, the timer is disarmed, the status is the failure message and the loop goes on
C7_FailureAbsorbed ==
    (IsSome(dispatch) /\ ~Unwrap(dispatch).ret) =>
        /\ mode = "ProcessSelect"
        /\ selected_pid = None
        /\ timer_start = None
        /\ status_message = "kill_failed"
        /\ pc = "events"

\* C8: Enter in TimerInput on an input that does not parse keeps TimerInput, sets the
\* invalid-format status and leaves the timer unarmed (no start instant, remaining() none)
C8_ParseFailureUnarmed ==
    [][(mode = "TimerInput" /\ KeyEnter /\ ~IsSome(parse_timer_input(App))) =>
            /\ mode' = "TimerInput"
            /\ status_message' = "invalid_format"
            /\ timer_start' = None
            /\ get_remaining_time(App', now') = None]_vars


ContainsIgnoringCase(name, query) ==
    \E pre, post \in 0..Len(name) :
        /\ pre + Len(query) + post = Len(name)
        /\ \A i \in 1..Len(query) : LowerChar(name[pre + i]) = LowerChar(query[i])

\* the positions of the full list whose entry matches the current query
MatchingPositions ==
    {i \in 1..Len(processes) : ContainsIgnoringCase(processes[i].name, search_query)}

C10_RemainingSaturates ==
    /\ [](get_remaining_time(App, now) =
            IF timer_start = None THEN None
            ELSE Some(Max(0, timer_seconds - ((now - Unwrap(timer_start)) \div TicksPerSec))))
    /\ [][(IsSome(timer_start) /\ now' >= now /\ UNCHANGED <<timer_start, timer_seconds>>) =>
            /\ Unwrap(get_remaining_time(App', now')) <= Unwrap(get_remaining_time(App, now))
            /\ Unwrap(get_remaining_time(App', now')) >= 0]_vars

\* C10 witness: a countdown a full second past its expiry, remaining() still 0
C10_Witness ==
    /\ mode = "TimerRunning"
    /\ now - Unwrap(timer_start) >= (timer_seconds + 1) * TicksPerSec
    /\ get_remaining_time(App, now) = Some(0)


\* the decimal digits, and the number a string of them denotes
DecimalDigits == <<"0", "1", "2", "3", "4", "5", "6", "7", "8", "9">>
IsDecimal(s) == s # <<>> /\ \A i \in 1..Len(s) : \E d \in 1..10 : DecimalDigits[d] = s[i]

RECURSIVE DecimalValue(_)
DecimalValue(s) ==
    IF s = <<>> THEN 0
    ELSE DecimalValue(SubSeq(s, 1, Len(s) - 1)) * 10
         + (CHOOSE d \in 1..10 : DecimalDigits[d] = s[Len(s)]) - 1

\* a number with an optional leading "+"
IsSignedDecimal(s) == IsDecimal(s) \/ (s # <<>> /\ Head(s) = "+" /\ IsDecimal(Tail(s)))
SignedDecimalValue(s) == IF IsDecimal(s) THEN DecimalValue(s) ELSE DecimalValue(Tail(s))

\* the results the grammar "<number>:<number> or <number>" gives for text s
GrammarValues(s, IsNumber(_), Value(_)) ==
    {Value(SubSeq(s, 1, p - 1)) * 60 + Value(SubSeq(s, p + 1, Len(s))) :
        p \in {q \in 1..Len(s) : /\ s[q] = ":"
                                 /\ IsNumber(SubSeq(s, 1, q - 1))
                                 /\ IsNumber(SubSeq(s, q + 1, Len(s)))}}
    \cup (IF IsNumber(s) THEN {Value(s)} ELSE {})

\* the texts s is made of: s itself without the white space at its two ends
Cores(s) ==
    {SubSeq(s, ij[1], ij[2]) : ij \in
        {ij \in (1..(Len(s) + 1)) \X (0..Len(s)) :
            /\ ij[1] <= ij[2] + 1
            /\ \A k \in 1..(ij[1] - 1) : s[k] = " "
            /\ \A k \in (ij[2] + 1)..Len(s) : s[k] = " "
            /\ ij[1] <= ij[2] => (s[ij[1]] # " " /\ s[ij[2]] # " ")}}

\* what the parse step left behind: the seconds it armed the timer with, or the error
ParseOutcome ==
    IF mode = "TimerRunning" /\ IsSome(timer_start) /\ status_message = "running"
    THEN {timer_seconds}
    ELSE IF mode = "TimerInput" /\ status_message = "invalid_format" THEN {}
    ELSE {-1}

C11_LookupBeforeAction ==
    IsSome(dispatch) =>
        LET c == Unwrap(dispatch)
        IN  /\ c.issued => (IsSome(c.pid) /\ c.outcome.found)
            /\ (c.pid = None \/ ~c.outcome.found) => (~c.issued /\ ~c.ret)

\* C11 witness: the target was gone from the lookup, nothing was run and the call failed
C11_Witness ==
    /\ IsSome(dispatch)
    /\ IsSome(Unwrap(dispatch).pid)
    /\ ~Unwrap(dispatch).outcome.found
    /\ ~Unwrap(dispatch).issued
    /\ ~Unwrap(dispatch).ret

\* the index a list of length n is left with when the index asked for is i
ClampedTo(i, n) == IF i >= n THEN Max(n - 1, 0) ELSE i

\* C12: over a non-empty filtered list of length n, Down moves the index i to i+1, or to
\* 0 from the last entry, and Up moves it to i-1, or to n-1 from the first (a one-entry
\* list keeps index 0); the mode, the query and the target are left alone, and so are the
\* lists unless the refresh of the same iteration meets another set of processes, which
\* can only pull the moved index down to the new last entry.
C12_NavigationWraps ==
    /\ [][(mode = "ProcessSelect" /\ filtered_processes # <<>> /\ IsSome(list_state) /\ KeyDown) =>
            LET n == Len(filtered_processes)
                i == Unwrap(list_state)
                moved == IF i < n - 1 THEN i + 1 ELSE 0
            IN  /\ UNCHANGED <<mode, search_query, selected_pid>>
                /\ list_state' = Some(ClampedTo(moved, Len(filtered_processes')))
                /\ processes' = processes =>
                      (filtered_processes' = filtered_processes /\ list_state' = Some(moved))
                /\ (n = 1 /\ processes' = processes) => list_state' = Some(0)]_vars
    /\ [][(mode = "ProcessSelect" /\ filtered_processes # <<>> /\ IsSome(list_state) /\ KeyUp) =>
            LET n == Len(filtered_processes)
                i == Unwrap(list_state)
                moved == IF i > 0 THEN i - 1 ELSE n - 1
            IN  /\ UNCHANGED <<mode, search_query, selected_pid>>
                /\ list_state' = Some(ClampedTo(moved, Len(filtered_processes')))
                /\ processes' = processes =>
                      (filtered_processes' = filtered_processes /\ list_state' = Some(moved))
                /\ (n = 1 /\ processes' = processes) => list_state' = Some(0)]_vars

\* C12 witness: the index is on the second of two entries, where only a move puts it
C12_Witness ==
    /\ mode = "ProcessSelect"
    /\ Len(filtered_processes) = 2
    /\ list_state = Some(1)
    /\ pc = "check"

\* C13: in every iteration the timer check comes before handle_events: when it finds
\* TimerRunning with remaining() == 0 it calls kill_process in that very step, whatever
\* key is waiting; handle_events runs only after the check, with the call finished and
\* TimerRunning left, so that a cancel key of the same iteration cancels nothing.
C13_CheckBeforeEvents ==
    /\ [][(pc = "check" /\ pc' # pc) => pc' = "events"]_vars
    /\ [][(pc = "check" /\ pc' # pc /\ mode = "TimerRunning"
            /\ get_remaining_time(App, now) = Some(0)) => IsSome(dispatch')]_vars
    /\ [][pc = "events" \/ ~KeyStep]_vars
    /\ [](IsSome(dispatch) => (pc = "events" /\ mode # "TimerRunning" /\ ~live_arming))
    /\ [][(IsSome(dispatch) /\ KeyStep) =>
            (status_message' # "cancelled" /\ dispatch' = None)]_vars

\* C13 witness: the call has been made and has returned, the key of the iteration is still to be read
C13_Witness ==
    /\ pc = "events"
    /\ IsSome(dispatch)
    /\ Unwrap(dispatch).issued
    /\ Unwrap(dispatch).ret
    /\ status_message = "killed"

\* C14: Enter in ProcessSelect on an existing selection takes the identifier of the
\* selected entry as the target, empties the timer input and enters TimerInput, so that
\* TimerInput is always entered with an empty timer input.
C14_ConfirmClearsInput ==
    /\ [][(mode = "ProcessSelect" /\ HasSelection(App) /\ KeyEnter) =>
            /\ selected_pid' = Some(filtered_processes[Unwrap(list_state) + 1].pid)
            /\ timer_input' = <<>>
            /\ mode' = "TimerInput"]_vars
    /\ [][(mode # "TimerInput" /\ mode' = "TimerInput") => timer_input' = <<>>]_vars

\* C15: kill_process returns true exactly when the platform action was run and reported
\* success; an action that was run and failed sends the loop down its failure branch.
C15_ReturnIsActionResult ==
    IsSome(dispatch) =>
        LET c == Unwrap(dispatch)
        IN  /\ c.ret <=> (c.issued /\ c.outcome.delivered)
            /\ (c.issued /\ ~c.outcome.delivered) => status_message = "kill_failed"

\* C16: the platform action is never applied to a running process other than the one
\* the selected list entry was read from.
C16_NoStaleTarget ==
    IsSome(dispatch) =>
        LET c == Unwrap(dispatch)
        IN  (c.issued /\ c.outcome.alive) => c.outcome.same

\* C17: Enter in ProcessSelect with no entry under the index (no index, or an index past
\* the end of the filtered list) changes nothing: the mode is still ProcessSelect, the
\* target is still none, and the timer input, the timer and the status message are unchanged.
C17_EmptySelectionNoOp ==
    [][(mode = "ProcessSelect" /\ ~HasSelection(App) /\ KeyEnter) =>
            /\ mode' = "ProcessSelect"
            /\ selected_pid' = None
            /\ UNCHANGED <<timer_input, timer_seconds, timer_start, status_message>>]_vars

TimerModes == {"TimerInput", "TimerRunning"}

\* the loop step being taken is handle_events and what follows it: the end of an iteration
EndOfIteration == pc = "events" /\ pc' # "events"

\* C18, second and third part: in TimerInput a character or Backspace changes the timer
\* input only, and in TimerRunning every key but the cancel key changes nothing
KeysOutsideSelect ==
    /\ [][(mode = "TimerInput" /\ (KeyChar \/ KeySlash \/ KeyBackspace)) =>
            UNCHANGED <<processes, filtered_processes, list_state, search_query, selected_pid,
                        mode, timer_seconds, timer_start, status_message>>]_vars
    /\ [][(mode = "TimerRunning" /\ KeyStep /\ ~KeyQuit) =>
            UNCHANGED <<processes, filtered_processes, list_state, search_query, selected_pid,
                        mode, timer_input, timer_seconds, timer_start, status_message>>]_vars

\* C18 as claimed: in an iteration that is rendered in TimerInput or TimerRunning and
\* ends in one of them, neither the timer check nor handle_events changes the full list,
\* the filtered list, the query or the index
C18_TickFrame ==
    /\ [][(EndOfIteration /\ Rendered \in TimerModes /\ mode' \in TimerModes) =>
            /\ UNCHANGED <<processes, filtered_processes, list_state, search_query>>
            /\ IsSome(dispatch) => ~Unwrap(dispatch).catalog_changed]_vars
    /\ KeysOutsideSelect

\* C18 as amended: the same, the iteration whose timer check killed the target (and
\* refreshed the lists before Enter went back into TimerInput) excepted
C18_FrameUnlessKilled ==
    /\ [][(pc = "check" /\ pc' = "events") => Rendered' = mode]_vars
    /\ [][(pc = "check" /\ pc' = "events" /\ ~(IsSome(dispatch') /\ Unwrap(dispatch').ret)) =>
            UNCHANGED <<processes, filtered_processes, list_state, search_query>>]_vars
    /\ [][(EndOfIteration /\ Rendered \in TimerModes /\ mode' \in TimerModes) =>
            /\ UNCHANGED <<processes, filtered_processes, list_state, search_query>>
            /\ (IsSome(dispatch) /\ ~Unwrap(dispatch).ret) => ~Unwrap(dispatch).catalog_changed]_vars
    /\ KeysOutsideSelect

\* C18 witness: a character typed and Enter pressed in TimerInput, the input rejected
C18_Witness ==
    /\ mode = "TimerInput"
    /\ timer_input = <<"A">>
    /\ status_message = "invalid_format"
    /\ pc = "check"

\* C19: kill_process is called only by the timer check of an iteration that finds
\* TimerRunning with remaining() == 0, on the identifier the latest Enter in ProcessSelect
\* took from the selected entry (kept unchanged through TimerInput and TimerRunning), and
\* once per arming at most; no handle_events step calls it and none is made after the quit.
C19_KillOnlyOnExpiry ==
    /\ [][Dispatching =>
            /\ ExpiryTick
            /\ live_arming /\ ~live_arming'
            /\ Unwrap(dispatch').issued => Unwrap(dispatch').pid = selected_pid]_vars
    /\ [][(mode = "ProcessSelect" /\ mode' = "TimerInput") =>
            (KeyEnter /\ HasSelection(App)
             /\ selected_pid' = Some(filtered_processes[Unwrap(list_state) + 1].pid))]_vars
    /\ [][(mode \in TimerModes /\ mode' \in TimerModes) => UNCHANGED selected_pid]_vars
    /\ [][EndOfIteration => dispatch' = None]_vars
    /\ [](pc = "done" => dispatch = None)

\* C19 witness: the countdown on entry (2, "a") ran out and that process was terminated
C19_Witness ==
    /\ IsSome(dispatch)
    /\ Unwrap(dispatch).pid = Some(2)
    /\ Unwrap(dispatch).outcome.same
    /\ Unwrap(dispatch).outcome.delivered

\* C20: a key is read in the mode the iteration was rendered in: the loop is left only
\* by a q read in an iteration rendered in ProcessSelect or TimerInput, and a q of an
\* iteration rendered in TimerRunning never ends the program.
C20_QuitOnlyWhereRendered ==
    /\ [][(EndOfIteration /\ pc' = "done") => Rendered \in {"ProcessSelect", "TimerInput"}]_vars
    /\ [][(Rendered = "TimerRunning" /\ KeyQuit) => pc' # "done"]_vars

====
